---- MODULE Spec2Model ----
(***************************************************************************)
(* Workforce scheduler: WorkforceSimulator.generate_schedule (optimisation *)
(* model, solver outcome, extraction, fallback), add_breaks and the shift  *)
(* segmenter get_shifts / _get_shifts.                                     *)
(*                                                                         *)
(* Employees are indexed from 0 as in the code; employees[e + 1] is the    *)
(* e-th element of self.employees.  A period is an hour offset from the    *)
(* start of the horizon.                                                   *)
(***************************************************************************)
EXTENDS Integers, Sequences, FiniteSets

VARIABLES
    employees,     \* self.employees: sequence of [schedule, breaks_taken]
    horizon_days,  \* argument of the running generate_schedule call
    pc,            \* position of the program
    idx,           \* loop variable e of the extraction loop
    working,       \* values of model.working after a solve: employee -> periods at 1
    results,       \* results.solver of the last solve
    log,           \* messages emitted through logger
    search,        \* the solver's progress while solver.solve runs
    shifts         \* value returned by the last get_shifts / _get_shifts call

vars == <<employees, horizon_days, pc, idx, working, results, log, search, shifts>>

----------------------------------------------------------------------------
(* Bounds of the model *)

MaxEmployees == 3
MaxHorizon == 2
MaxOffset == 2
MaxFallbackEmployees == 4
MaxFallbackHorizon == 7
MaxPeriod == 7

(* Numbers of the program *)

HoursPerDay == 24
MaxDailyHours == 8
MinStaff == 1
WindowLen == 9
MaxWindowHours == 8
MinBreakShift == 6

----------------------------------------------------------------------------
(* Helpers *)

Min(S) == CHOOSE x \in S : \A y \in S : x <= y

RECURSIVE SetToSeq(_)
SetToSeq(S) ==
    IF S = {} THEN <<>>
    ELSE LET m == Min(S) IN <<m>> \o SetToSeq(S \ {m})

Range(s) == {s[i] : i \in DOMAIN s}

NumEmployees == Len(employees)

EmployeeIds == 0 .. (NumEmployees - 1)

\* Employee(id, skills): schedule and breaks_taken start empty
NewEmployee == [schedule |-> <<>>, breaks_taken |-> <<>>]

----------------------------------------------------------------------------
(* The optimisation model built by generate_schedule *)

\* model.PERIODS = range(24 * horizon_days)
PERIODS(h) == 0 .. (HoursPerDay * h - 1)

\* model.DAYS = range(horizon_days)
DAYS(h) == 0 .. (h - 1)

\* value of the binary variable model.working[e, p]
value(w, e, p) == IF p \in w[e] THEN 1 ELSE 0

\* sum(model.working[e,p] for p in P): the variables are binary, so the sum
\* is the number of periods of P at 1
SumOver(w, e, P) == Cardinality(P \cap w[e])

\* objective: sum of working[e,p] over all employees and periods, minimised
RECURSIVE objective(_, _, _)
objective(w, n, h) ==
    IF n = 0 THEN 0
    ELSE SumOver(w, n - 1, PERIODS(h)) + objective(w, n - 1, h)

daily_hours_rule_nine(w, e, d) ==
    LET day_start == d * HoursPerDay
    IN  SumOver(w, e, day_start .. (day_start + HoursPerDay - 1)) <= MaxDailyHours + 1

daily_hours_rule(w, e, d) ==
    LET day_start == d * HoursPerDay
    IN  SumOver(w, e, day_start .. (day_start + HoursPerDay - 1)) <= MaxDailyHours

\* sum(model.working[e,p] for e in model.EMPLOYEES)
Staff(w, p, n) == Cardinality({e \in 0 .. (n - 1) : p \in w[e]})

coverage_rule(w, p, n) == Staff(w, p, n) >= MinStaff

\* Constraint.Skip is the absence of a constraint: TRUE
consecutive_hours_rule_short(w, e, p, h) ==
    IF p <= Cardinality(PERIODS(h)) - WindowLen
    THEN SumOver(w, e, p .. (p + WindowLen - 2)) <= MaxWindowHours
    ELSE TRUE

consecutive_hours_rule(w, e, p, h) ==
    IF p <= Cardinality(PERIODS(h)) - WindowLen
    THEN SumOver(w, e, p .. (p + WindowLen - 1)) <= MaxWindowHours
    ELSE TRUE

Feasible(w, n, h) ==
    /\ \A e \in 0 .. (n - 1) : \A d \in DAYS(h) : daily_hours_rule(w, e, d)
    /\ \A p \in PERIODS(h) : coverage_rule(w, p, n)
    /\ \A e \in 0 .. (n - 1) : \A p \in PERIODS(h) : consecutive_hours_rule(w, e, p, h)

----------------------------------------------------------------------------
(* The solver (external): solver.solve(model)                              *)
(*                                                                         *)
(* With status ok and termination condition optimal the values of         *)
(* model.working are a feasible assignment of minimal objective.  The      *)
(* solver is modelled as a search that cuts the horizon at                 *)
(* offset + k * BlockLen (offset in 0 .. MaxOffset) and gives the blocks,  *)
(* in order, each to one employee or to nobody, keeping the constraints    *)
(* that mention the block.  A complete assignment is reported optimal when *)
(* it is feasible and its objective equals the least value the coverage    *)
(* constraints allow.                                                      *)

BlockLen == MaxDailyHours

NoSearch == [offset |-> -1, pos |-> -1]

NoWork(n) == [e \in 0 .. (n - 1) |-> {}]

\* end (exclusive) of the block that starts at pos
BlockEnd(o, pos, h) ==
    LET T == HoursPerDay * h
        nxt == IF pos < o THEN o ELSE pos + BlockLen
    IN  IF nxt < T THEN nxt ELSE T

\* block b = <<lo, hi>> given to employee who (-1: to nobody)
Give(w, who, b) ==
    [e \in DOMAIN w |-> IF e = who THEN w[e] \cup (b[1] .. (b[2] - 1)) ELSE w[e]]

\* the constraints that mention the periods of block b, for its holder
BlockOK(w, who, b, n, h) ==
    /\ \A p \in b[1] .. (b[2] - 1) : coverage_rule(w, p, n)
    /\ who # -1 =>
          /\ \A d \in (b[1] \div HoursPerDay) .. ((b[2] - 1) \div HoursPerDay) :
                daily_hours_rule(w, who, d)
          /\ \A p \in (b[1] - WindowLen + 1) .. (b[2] - 1) :
                p \in PERIODS(h) => consecutive_hours_rule(w, who, p, h)

\* the coverage constraints summed: no feasible assignment has a smaller objective
ObjectiveBound(h) == MinStaff * Cardinality(PERIODS(h))

Optimal(w, n, h) == Feasible(w, n, h) /\ objective(w, n, h) = ObjectiveBound(h)

OkOptimal == [status |-> "ok", termination_condition |-> "optimal"]

NoResults == [status |-> "none", termination_condition |-> "none"]

\* outcomes of a solve other than ok + optimal
OtherResults ==
    { [status |-> "warning", termination_condition |-> "infeasible"],
      [status |-> "ok", termination_condition |-> "maxTimeLimit"],
      [status |-> "aborted", termination_condition |-> "optimal"],
      [status |-> "error", termination_condition |-> "error"] }

----------------------------------------------------------------------------
(* generate_schedule: extraction of the solution *)

\* model.PERIODS in iteration order
PeriodList(h) == [i \in 1 .. (HoursPerDay * h) |-> i - 1]

\* for p in model.PERIODS: if pyo.value(model.working[e,p]) > 0.5: schedule.append(p)
\* (the threshold 0.5 on a value in {0, 1}, doubled to stay in the integers)
extract_schedule(w, e, h) ==
    SelectSeq(PeriodList(h), LAMBDA p : 2 * value(w, e, p) > 1)

\* except Exception: where control goes when `stage` raises inside the try block
except_Exception_reraise(stage) == IF stage = "extract" THEN "raised" ELSE "fallback"

except_Exception_swallow(stage) == IF stage = "extract" THEN "returned" ELSE "fallback"

except_Exception(stage) == "fallback"

----------------------------------------------------------------------------
(* _generate_fallback_schedule *)

fallback_shifts == << <<0, 8>>, <<8, 16>>, <<16, 24>> >>

\* for hour in range(shift_start, shift_end): schedule.append(day * 24 + hour)
fallback_hours_inclusive(schedule, day, shift_start, shift_end) ==
    schedule \o [k \in 1 .. (shift_end - shift_start + 1) |->
                    day * HoursPerDay + (shift_start + k - 1)]

fallback_hours(schedule, day, shift_start, shift_end) ==
    schedule \o [k \in 1 .. (shift_end - shift_start) |->
                    day * HoursPerDay + (shift_start + k - 1)]

\* if day % 2 == 0
works_on_odd(day) == day % 2 = 1

works_every_day(day) == TRUE

works_on(day) == day % 2 = 0

\* for day in range(horizon_days)
RECURSIVE fallback_days(_, _, _, _, _)
fallback_days(schedule, day, h, shift_start, shift_end) ==
    IF day >= h THEN schedule
    ELSE fallback_days(IF works_on(day)
                       THEN fallback_hours(schedule, day, shift_start, shift_end)
                       ELSE schedule,
                       day + 1, h, shift_start, shift_end)

\* the body of `for e in range(len(self.employees))`
fallback_schedule(e, h) ==
    LET shift_index == e % Len(fallback_shifts)
        shift == fallback_shifts[shift_index + 1]
    IN  fallback_days(<<>>, 0, h, shift[1], shift[2])

\* for e in range(len(self.employees)): ... self.employees[e].schedule = schedule
_generate_fallback_schedule(emps, h) ==
    [i \in DOMAIN emps |-> [emps[i] EXCEPT !.schedule = fallback_schedule(i - 1, h)]]

----------------------------------------------------------------------------
(* get_shifts (utils.helpers) and WorkforceSimulator._get_shifts *)

Last(s) == s[Len(s)]

\* for hour in schedule[1:], from the i-th element of schedule on
RECURSIVE shifts_loop(_, _, _, _)
shifts_loop(schedule, i, acc, current_shift) ==
    IF i > Len(schedule)
    THEN IF current_shift # <<>> THEN Append(acc, current_shift) ELSE acc
    ELSE LET hour == schedule[i]
         IN  IF hour = Last(current_shift) + 1
             THEN shifts_loop(schedule, i + 1, acc, Append(current_shift, hour))
             ELSE shifts_loop(schedule, i + 1, Append(acc, current_shift), <<hour>>)

RECURSIVE shifts_loop_drop_last(_, _, _, _)
shifts_loop_drop_last(schedule, i, acc, current_shift) ==
    IF i > Len(schedule)
    THEN acc
    ELSE LET hour == schedule[i]
         IN  IF hour = Last(current_shift) + 1
             THEN shifts_loop_drop_last(schedule, i + 1, acc, Append(current_shift, hour))
             ELSE shifts_loop_drop_last(schedule, i + 1, Append(acc, current_shift), <<hour>>)

get_shifts_drop_last(schedule) ==
    IF schedule = <<>> THEN <<>>
    ELSE shifts_loop_drop_last(schedule, 2, <<>>, <<schedule[1]>>)

get_shifts(schedule) ==
    IF schedule = <<>> THEN <<>>
    ELSE shifts_loop(schedule, 2, <<>>, <<schedule[1]>>)

_get_shifts(schedule) ==
    IF schedule = <<>> THEN <<>>
    ELSE shifts_loop(schedule, 2, <<>>, <<schedule[1]>>)

----------------------------------------------------------------------------
(* add_breaks *)

\* if len(shift) >= 6
needs_break_strict(shift) == Len(shift) > MinBreakShift

needs_break(shift) == Len(shift) >= MinBreakShift

\* for shift in shifts: ... breaks_taken.append(shift[len(shift) // 2])
RECURSIVE breaks_loop(_, _)
breaks_loop(ss, breaks_taken) ==
    IF ss = <<>> THEN breaks_taken
    ELSE LET shift == Head(ss)
             mid_point == shift[(Len(shift) \div 2) + 1]
         IN  breaks_loop(Tail(ss),
                         IF needs_break(shift) THEN Append(breaks_taken, mid_point)
                         ELSE breaks_taken)

\* the body of `for employee in self.employees`
employee_breaks_removing(employee) ==
    LET b == breaks_loop(_get_shifts(employee.schedule), <<>>)
    IN  [schedule |-> SelectSeq(employee.schedule, LAMBDA x : x \notin Range(b)),
         breaks_taken |-> b]

employee_breaks(employee) ==
    [employee EXCEPT !.breaks_taken = breaks_loop(_get_shifts(employee.schedule), <<>>)]

----------------------------------------------------------------------------
(* State after WorkforceSimulator.__init__ *)

Init ==
    /\ employees = <<>>
    /\ horizon_days = 0
    /\ pc = "setup"
    /\ idx = 0
    /\ working = <<>>
    /\ results = NoResults
    /\ log = {}
    /\ search = NoSearch
    /\ shifts = <<>>

Msg(level, text, stage, at) == [level |-> level, text |-> text, stage |-> stage, at |-> at]

AddEmployee(max) ==
    /\ pc = "setup"
    /\ Len(employees) < max
    /\ employees' = Append(employees, NewEmployee)
    /\ UNCHANGED <<horizon_days, pc, idx, working, results, log, search, shifts>>

add_employee == AddEmployee(MaxEmployees)

\* self._generate_fallback_schedule(horizon_days), from its first log message
\* to its last, after the messages `said` were logged
RunFallback(said) ==
    /\ employees' = _generate_fallback_schedule(employees, horizon_days)
    /\ log' = log \cup said \cup
                  {Msg("info", "Generating fallback schedule...", "fallback", 0),
                   Msg("info", "Fallback schedule generated successfully", "fallback", 0)}
    /\ pc' = "returned"

\* an exception raised inside the try block of generate_schedule: the handler
\* logs it and runs the fallback; nothing reads the optimisation model after
\* the exception, and its values are dropped
Raise(stage) ==
    /\ IF except_Exception(stage) = "fallback"
       THEN RunFallback({Msg("error", "Error in schedule generation", stage, idx)})
       ELSE /\ log' = log \cup {Msg("error", "Error in schedule generation", stage, idx)}
            /\ pc' = except_Exception(stage)
            /\ employees' = employees
    /\ working' = <<>>
    /\ UNCHANGED <<horizon_days, idx, results, search, shifts>>

\* main: simulator.generate_schedule(h)
generate_schedule ==
    /\ pc = "setup"
    /\ \E h \in 0 .. MaxHorizon : horizon_days' = h
    /\ pc' = "build"
    /\ UNCHANGED <<employees, idx, working, results, log, search, shifts>>

\* sets, variables, objective and constraints are built
build_model ==
    /\ pc = "build"
    /\ pc' = "solve"
    /\ UNCHANGED <<employees, horizon_days, idx, working, results, log, search, shifts>>

raise_in_build ==
    /\ pc = "build"
    /\ Raise("build")

\* solver.solve: the search starts
solve_start ==
    /\ pc = "solve"
    /\ \E o \in 0 .. MaxOffset : search' = [offset |-> o, pos |-> 0]
    /\ working' = NoWork(NumEmployees)
    /\ pc' = "search"
    /\ UNCHANGED <<employees, horizon_days, idx, results, log, shifts>>

\* solver.solve: the next block is given
solve_give ==
    /\ pc = "search"
    /\ search.pos < HoursPerDay * horizon_days
    /\ LET b == <<search.pos, BlockEnd(search.offset, search.pos, horizon_days)>>
       IN  \E who \in -1 .. (NumEmployees - 1) :
              LET w == Give(working, who, b)
              IN  /\ BlockOK(w, who, b, NumEmployees, horizon_days)
                  /\ working' = w
                  /\ search' = [search EXCEPT !.pos = b[2]]
    /\ UNCHANGED <<employees, horizon_days, pc, idx, results, log, shifts>>

\* solver.solve returns status ok, termination condition optimal
solve_optimal ==
    /\ pc = "search"
    /\ search.pos = HoursPerDay * horizon_days
    /\ Optimal(working, NumEmployees, horizon_days)
    /\ results' = OkOptimal
    /\ search' = NoSearch
    /\ pc' = "status"
    /\ UNCHANGED <<employees, horizon_days, idx, working, log, shifts>>

\* solver.solve returns any other status or termination condition
solve_other ==
    /\ pc = "solve"
    /\ \E r \in OtherResults : results' = r
    /\ pc' = "status"
    /\ UNCHANGED <<employees, horizon_days, idx, working, log, search, shifts>>

raise_in_solve ==
    /\ pc = "solve"
    /\ Raise("solve")

\* if results.solver.status == ok and termination_condition == optimal
check_status ==
    /\ pc = "status"
    /\ IF results.status = "ok" /\ results.termination_condition = "optimal"
       THEN /\ pc' = "extract"
            /\ UNCHANGED <<employees, log>>
       ELSE RunFallback({Msg("warning", "Solver status", "solve", 0)})
    /\ UNCHANGED <<horizon_days, idx, working, results, search, shifts>>

\* one pass of `for e in model.EMPLOYEES`
extract_employee ==
    /\ pc = "extract"
    /\ idx < NumEmployees
    /\ employees' = [employees EXCEPT ![idx + 1].schedule =
                         extract_schedule(working, idx, horizon_days)]
    /\ idx' = idx + 1
    /\ UNCHANGED <<horizon_days, pc, working, results, log, search, shifts>>

\* pyo.value raises in pass idx of the loop
raise_in_extract ==
    /\ pc = "extract"
    /\ idx < NumEmployees
    /\ Raise("extract")

extract_done ==
    /\ pc = "extract"
    /\ idx = NumEmployees
    /\ log' = log \cup {Msg("info", "Schedule optimization completed successfully", "extract", 0)}
    /\ pc' = "returned"
    /\ UNCHANGED <<employees, horizon_days, idx, working, results, search, shifts>>

\* main: simulator.add_breaks()
add_breaks ==
    /\ pc = "returned"
    /\ employees' = [i \in DOMAIN employees |-> employee_breaks(employees[i])]
    /\ log' = log \cup {Msg("info", "Break assignment completed successfully", "breaks", 0)}
    /\ pc' = "done"
    /\ UNCHANGED <<horizon_days, idx, working, results, search, shifts>>

Next ==
    \/ add_employee
    \/ generate_schedule
    \/ build_model
    \/ raise_in_build
    \/ solve_start
    \/ solve_give
    \/ solve_optimal
    \/ solve_other
    \/ raise_in_solve
    \/ check_status
    \/ extract_employee
    \/ raise_in_extract
    \/ extract_done
    \/ add_breaks

Spec == Init /\ [][Next]_vars

----------------------------------------------------------------------------
(* _generate_fallback_schedule called on its own, any number of times *)

add_employee_direct == AddEmployee(MaxFallbackEmployees)

fallback ==
    /\ pc = "fallback"
    /\ RunFallback({})
    /\ UNCHANGED <<horizon_days, idx, working, results, search, shifts>>

generate_fallback_schedule ==
    /\ pc \in {"setup", "returned"}
    /\ \E h \in 0 .. MaxFallbackHorizon : horizon_days' = h
    /\ pc' = "fallback"
    /\ UNCHANGED <<employees, idx, working, results, log, search, shifts>>

FallbackNext ==
    \/ add_employee_direct
    \/ generate_fallback_schedule
    \/ fallback

FallbackSpec == Init /\ [][FallbackNext]_vars

----------------------------------------------------------------------------
(* get_shifts / _get_shifts called on an employee whose schedule is any    *)
(* strictly increasing sequence of periods in 0 .. MaxPeriod               *)

SegmentInit ==
    /\ \E S \in SUBSET (0 .. MaxPeriod) :
          employees = << [schedule |-> SetToSeq(S), breaks_taken |-> <<>>] >>
    /\ horizon_days = 0
    /\ pc = "segment"
    /\ idx = 0
    /\ working = <<>>
    /\ results = NoResults
    /\ log = {}
    /\ search = NoSearch
    /\ shifts = <<>>

call_get_shifts ==
    /\ pc = "segment"
    /\ shifts' = get_shifts(employees[1].schedule)
    /\ pc' = "get_shifts"
    /\ UNCHANGED <<employees, horizon_days, idx, working, results, log, search>>

call__get_shifts ==
    /\ pc = "segment"
    /\ shifts' = _get_shifts(employees[1].schedule)
    /\ pc' = "_get_shifts"
    /\ UNCHANGED <<employees, horizon_days, idx, working, results, log, search>>

SegmentNext == call_get_shifts \/ call__get_shifts

SegmentSpec == SegmentInit /\ [][SegmentNext]_vars

----------------------------------------------------------------------------
(* Vocabulary of the properties *)

ScheduleOf(e) == employees[e + 1].schedule

BreaksOf(e) == employees[e + 1].breaks_taken

StrictlyIncreasing(s) == \A i \in 1 .. (Len(s) - 1) : s[i] < s[i + 1]

Logged(text) == \E m \in log : m.text = text

\* the success message of the extraction was logged: the backend's solution stands
Adopted == Logged("Schedule optimization completed successfully")

ErrorLogged == \E m \in log : m.level = "error"

\* the schedule the fallback gives employee e over h days, stated as a set
Template(k) == (8 * k) .. (8 * k + 7)

FallbackExpected(e, h) ==
    {d * 24 + hr : d \in {x \in 0 .. (h - 1) : x % 2 = 0}, hr \in Template(e % 3)}

\* s is the ascending list of the elements of S
AscendingListOf(s, S) == StrictlyIncreasing(s) /\ Range(s) = S

AllFallback ==
    \A e \in EmployeeIds : AscendingListOf(ScheduleOf(e), FallbackExpected(e, horizon_days))

AllBackend ==
    /\ results = OkOptimal
    /\ DOMAIN working = EmployeeIds
    /\ \A e \in EmployeeIds : AscendingListOf(ScheduleOf(e), working[e])

\* the periods at least one employee has in their schedule
Covered == UNION {Range(ScheduleOf(e)) : e \in EmployeeIds}

DayPeriods(d) == (24 * d) .. (24 * d + 23)

\* the maximal runs of consecutive integers of the set S, as <<first, last>>
RunStarts(S) == {lo \in S : (lo - 1) \notin S}

MaximalRuns(S) ==
    UNION { {<<lo, Min({hi \in Ends : hi >= lo})>> : lo \in RunStarts(S)} :
            Ends \in { {hi \in S : (hi + 1) \notin S} } }

RunLen(r) == r[2] - r[1] + 1

----------------------------------------------------------------------------
(* C1: generate_schedule never raises to its caller, and whenever the      *)
(* outcome is not a fully extracted ok + optimal solution every employee   *)
(* has the fallback's schedule on return.                                  *)

C1_NeverRaisesAndDegrades ==
    /\ pc # "raised"
    /\ (pc = "returned" /\ ~(results = OkOptimal /\ ~ErrorLogged)) => AllFallback

C1_Witness ==
    /\ pc = "returned"
    /\ results = OkOptimal
    /\ \E m \in log : m.level = "error" /\ m.stage = "extract"
    /\ NumEmployees = 3
    /\ horizon_days = 2

(* C2: no partial adoption: on return either every employee has the        *)
(* backend's extracted solution or every employee has the fallback's, also *)
(* when an exception interrupts the extraction loop after some employees   *)
(* were assigned.                                                          *)

C2_NoPartialAdoption ==
    pc = "returned" => (AllBackend \/ AllFallback)

C2_Witness ==
    /\ pc = "returned"
    /\ \E m \in log : m.level = "error" /\ m.stage = "extract" /\ m.at = 2
    /\ NumEmployees = 3
    /\ horizon_days = 2
    /\ AllFallback
    /\ ~AllBackend

(* C3: on return every schedule is strictly increasing and within          *)
(* [0, horizon_days * 24).                                                 *)

C3_SortedInHorizon ==
    pc = "returned" =>
        \A e \in EmployeeIds :
            /\ StrictlyIncreasing(ScheduleOf(e))
            /\ \A i \in DOMAIN ScheduleOf(e) :
                  0 <= ScheduleOf(e)[i] /\ ScheduleOf(e)[i] < horizon_days * 24

C3_Witness ==
    /\ pc = "returned"
    /\ Adopted
    /\ horizon_days = 2
    /\ \E e \in EmployeeIds : Len(ScheduleOf(e)) = 16 /\ ScheduleOf(e)[16] = 47

(* C4: on return, by either path, no employee has more than 8 schedule     *)
(* entries in any day of the horizon.                                     *)

HoursInDay(e, d) ==
    Cardinality({p \in Range(ScheduleOf(e)) : p \div 24 = d})

C4_DailyCap ==
    pc = "returned" =>
        \A e \in EmployeeIds : \A d \in 0 .. (horizon_days - 1) : HoursInDay(e, d) <= 8

C4_Witness ==
    /\ pc = "returned"
    /\ Adopted
    /\ horizon_days = 2
    /\ \E e \in EmployeeIds :
          /\ HoursInDay(e, 0) = 8
          /\ HoursInDay(e, 1) = 8
          /\ Range(ScheduleOf(e)) \cap DayPeriods(0) # FallbackExpected(e, 2)

(* C5: on return, by either path, no employee has a contiguous run of more *)
(* than 8 periods, runs across a day boundary included; the window         *)
(* constraint exists for the starts p <= 24 * horizon_days - 9 and for no  *)
(* other (an employee working every period breaks exactly those).          *)

EveryPeriod(h) == [e \in {0} |-> 0 .. (24 * h - 1)]

C5_NoLongRun ==
    /\ pc = "returned" =>
          \A S \in {Range(ScheduleOf(e)) : e \in EmployeeIds} :
              \A p \in S : ~((p .. (p + 8)) \subseteq S)
    /\ pc = "solve" =>
          \A p \in 0 .. (24 * horizon_days - 1) :
              consecutive_hours_rule(EveryPeriod(horizon_days), 0, p, horizon_days)
                  <=> (p > 24 * horizon_days - 9)

C5_Witness ==
    /\ pc = "returned"
    /\ Adopted
    /\ \E e \in EmployeeIds :
          \E r \in MaximalRuns(Range(ScheduleOf(e))) :
              r[1] < 24 /\ r[2] >= 24 /\ RunLen(r) = 8

(* C6: get_shifts and _get_shifts on a strictly increasing sequence: the   *)
(* runs concatenated in order give back the input; every run is non-empty  *)
(* and contiguous; no run starts one after the end of the run before it;   *)
(* an empty input gives no run.                                            *)

RECURSIVE Flatten(_)
Flatten(ss) == IF ss = <<>> THEN <<>> ELSE Head(ss) \o Flatten(Tail(ss))

Contiguous(run) == \A i \in 1 .. (Len(run) - 1) : run[i + 1] = run[i] + 1

C6_SegmentRoundTrip ==
    pc \in {"get_shifts", "_get_shifts"} =>
        /\ Flatten(shifts) = ScheduleOf(0)
        /\ \A i \in DOMAIN shifts : shifts[i] # <<>> /\ Contiguous(shifts[i])
        /\ \A i \in 1 .. (Len(shifts) - 1) :
              shifts[i + 1][1] # shifts[i][Len(shifts[i])] + 1
        /\ (ScheduleOf(0) = <<>> => shifts = <<>>)

C6_Witness ==
    /\ pc = "get_shifts"
    /\ Len(shifts) = 3
    /\ \E i \in DOMAIN shifts : Len(shifts[i]) >= 3

(* C7: after add_breaks, every maximal run of length L >= 6 of an          *)
(* employee's schedule has exactly one break, at run[L // 2]; shorter runs *)
(* have none; breaks_taken holds nothing else.                             *)

LongRuns(e) ==
    UNION { {r \in MaximalRuns(S) : RunLen(r) >= 6} : S \in {Range(ScheduleOf(e))} }

C7_BreakPerLongRun ==
    pc = "done" =>
        \A e \in EmployeeIds :
            \A L \in {LongRuns(e)} :
                /\ Range(BreaksOf(e)) = {r[1] + (RunLen(r) \div 2) : r \in L}
                /\ Len(BreaksOf(e)) = Cardinality(L)

C7_Witness ==
    /\ pc = "done"
    /\ \E e \in EmployeeIds :
          /\ \E r \in MaximalRuns(Range(ScheduleOf(e))) : RunLen(r) = 6
          /\ \E r \in MaximalRuns(Range(ScheduleOf(e))) : RunLen(r) < 6
          /\ \E r \in MaximalRuns(Range(ScheduleOf(e))) : RunLen(r) = 8
          /\ Len(BreaksOf(e)) = 2

(* C8: add_breaks leaves every schedule as it was, and every break it      *)
(* records is an element of that employee's schedule afterwards.           *)

C8_BreaksOverlay ==
    [][(pc = "returned" /\ pc' = "done") =>
          /\ Len(employees') = Len(employees)
          /\ \A i \in DOMAIN employees :
                /\ employees'[i].schedule = employees[i].schedule
                /\ Range(employees'[i].breaks_taken) \subseteq Range(employees'[i].schedule)]_vars

C8_Witness ==
    /\ pc = "done"
    /\ Adopted
    /\ \E e \in EmployeeIds :
          /\ Len(BreaksOf(e)) >= 2
          /\ Range(BreaksOf(e)) \subseteq Range(ScheduleOf(e))

(* C9: the fallback schedule of employee e over H days is the ascending    *)
(* list of d*24 + h, d even in [0, H), h in template (e mod 3), whatever    *)
(* the schedules were before; with 4 employees and H = 7 employee 3 has    *)
(* template [0,8), everyone works days 0, 2, 4, 6 only and employee 0 has  *)
(* 32 entries.                                                             *)

DaysWorked(e) == {ScheduleOf(e)[i] \div 24 : i \in DOMAIN ScheduleOf(e)}

HoursWorked(e) == {ScheduleOf(e)[i] % 24 : i \in DOMAIN ScheduleOf(e)}

C9_FallbackIsFunction ==
    pc = "returned" =>
        /\ \A e \in EmployeeIds :
              AscendingListOf(ScheduleOf(e), FallbackExpected(e, horizon_days))
        /\ (NumEmployees = 4 /\ horizon_days = 7) =>
              /\ HoursWorked(3) = 0 .. 7
              /\ \A e \in EmployeeIds : DaysWorked(e) = {0, 2, 4, 6}
              /\ Len(ScheduleOf(0)) = 32

C9_Witness ==
    /\ pc = "returned"
    /\ NumEmployees = 4
    /\ horizon_days = 7
    /\ HoursWorked(1) = 8 .. 15
    /\ HoursWorked(2) = 16 .. 23

(* C10: on the fallback path with horizon_days >= 2 no employee works any  *)
(* period of an odd day, and with fewer than 3 employees some period of an *)
(* even day is uncovered too; every period is covered when the backend's   *)
(* solution is adopted.                                                    *)

====
